---- MODULE Spec2Model ----
(***************************************************************************)
(* paper-search-mcp: the Sci-Hub fetcher (sci_hub.py) and the Semantic     *)
(* Scholar searcher (semantic.py) as one sequential state machine.         *)
(*                                                                         *)
(* The program is single-threaded: one public operation runs at a time.    *)
(* `op` names the public operation of the behaviour, `pc` its position,    *)
(* `mr_pc` the position inside SemanticSearcher._make_request.             *)
(*                                                                         *)
(* Strings are sequences of tokens (a token is a character or a fixed      *)
(* piece of a message); the clock counts ticks of half a second divided    *)
(* by TicksPerHalfSecond.                                                  *)
(***************************************************************************)
EXTENDS Integers, Sequences, FiniteSets, TLC

\* ------------------------------------------------------------------ bounds
TicksPerHalfSecond == 1
MaxRetriesBound == 2
MaxLatency == 1
MaxIdle == 1
MaxCalls == 2
MaxElems == 2
PipelineFaults == 0
YearSpan == 2

\* semantic.py:71
DefaultMaxRetries == 3

\* sci_hub.py:223
DefaultCutoffYear == 2023

HalfSecond == TicksPerHalfSecond
Second == 2 * HalfSecond
\* time.time() when the instance is constructed: far past any interval.
Epoch == 4 * Second

VARIABLES
    op, pc,
    now, last_request_time, api_key, min_request_interval, max_retries,
    mr_pc, retry_count, waits, nReq, mr_ret,
    prevSent, lastSent, nSent,
    paper, nCalls, netCalls, rl_slept,
    ident, save_path, result, raised, stages, files,
    doi, page, pdf_url, resp, dl_ret, text,
    faults, attempt, dl_waits, curl, pdf_path,
    published_date, cutoff_year, year_ret

vars == <<op, pc, now, last_request_time, api_key, min_request_interval,
          max_retries, mr_pc, retry_count, waits, nReq, mr_ret,
          prevSent, lastSent, nSent, paper, nCalls, netCalls, rl_slept,
          ident, save_path, result, raised, stages, files,
          doi, page, pdf_url, resp, dl_ret, text,
          faults, attempt, dl_waits, curl, pdf_path,
          published_date, cutoff_year, year_ret>>

clientVars == <<api_key, min_request_interval, max_retries>>
sentVars == <<prevSent, lastSent, nSent, rl_slept>>
inVars == <<ident, save_path, published_date, cutoff_year>>
shVarsButRet == <<doi, page, pdf_url, resp, text>>
shVars == <<shVarsButRet, dl_ret>>
semDlVars == <<attempt, dl_waits, curl, pdf_path>>
pipeVars == <<inVars, result, raised, stages, files, shVars, semDlVars>>
semVars == <<now, last_request_time, clientVars, mr_pc, retry_count, waits,
             nReq, mr_ret, sentVars, paper, nCalls, faults, semDlVars>>

Min(a, b) == IF a < b THEN a ELSE b

\* ------------------------------------------------- SemanticSearcher client

ApiKeys == {"", "key"}

\* The two intervals the other way round.
MinRequestIntervalSwapped(key) == IF key # "" THEN HalfSecond ELSE Second

\* semantic.py:104
MinRequestInterval(key) == IF key # "" THEN Second ELSE HalfSecond

\* time.sleep(d) called at time t returns at t + d; a later wake-up is the
\* same as the latency or idle time the following step adds.
Sleep(t, d) == { t + d }

RateLimitNoWait(t, last, interval) == {t}

\* semantic.py:106-111: the time at which _rate_limit_wait returns, which is
\* also the value it stores in _last_request_time.
RateLimitWait(t, last, interval) ==
    LET elapsed == t - last
    IN  IF elapsed < interval THEN Sleep(t, interval - elapsed) ELSE {t}

CanRetryOffByOne(rc, maxr) == rc <= maxr

\* semantic.py:138 and :152
CanRetry(rc, maxr) == rc < maxr

\* semantic.py:140: (2 ** retry_count) + (time.time() % 1)
RateLimitedBackoff(rc, t) == (2 ^ rc) * Second + (t % Second)

\* semantic.py:153: 2 ** retry_count
FailureBackoff(rc, t) == (2 ^ rc) * Second

\* The network the behaviour runs against. The retries of _make_request are
\* explored by the behaviours that call get_paper_details alone; download_pdf
\* and read_paper run against a network that injects at most PipelineFaults
\* failed API attempts and answers at once.
Latencies == IF op = "sem_details" THEN 0..MaxLatency ELSE {0}

\* What a 200 response of the paper endpoint can hold.
ApiData == {"bad_json", "no_paper_id", "paper_without_pdf", "paper_with_pdf"}

\* semantic.py:201-245 (and 313-318): None is <<>>, a Paper is <<record>>.
PaperWith(url) ==
    [title |-> "A Title", authors |-> "A. Author, B. Author",
     published_date |-> "2013-08-01 00:00:00", url |-> "https://s2/paper/1",
     pdf_url |-> url]

ParsePaper(data) ==
    CASE data = "paper_with_pdf" -> << PaperWith(<<"http://oa/", "p.", "pdf">>) >>
      [] data = "paper_without_pdf" -> << PaperWith(<<>>) >>
      [] OTHER -> <<>>

\* semantic.py:129-134: _rate_limit_wait, then session.get is issued.
MakeRequestSend ==
    /\ mr_pc = "rate_limit"
    /\ \E t \in RateLimitWait(now, last_request_time, min_request_interval) :
          /\ now' = t
          /\ last_request_time' = t
          /\ prevSent' = lastSent
          /\ lastSent' = t
    /\ rl_slept' = (now - last_request_time < min_request_interval)
    /\ nSent' = Min(nSent + 1, 2)
    /\ nReq' = nReq + 1
    /\ netCalls' = netCalls + 1
    /\ mr_pc' = "in_flight"
    /\ UNCHANGED <<op, year_ret, pc, clientVars, retry_count, waits, mr_ret, paper, nCalls,
                   faults, pipeVars>>

\* A failed attempt: back off and recurse, or give up with None.
RetryOrGiveUp(t, w) ==
    /\ faults > 0
    /\ faults' = IF op = "sem_details" THEN faults ELSE faults - 1
    /\ IF CanRetry(retry_count, max_retries)
       THEN /\ \E t2 \in Sleep(t, w) : now' = t2
            /\ waits' = Append(waits, w)
            /\ retry_count' = retry_count + 1
            /\ mr_pc' = "rate_limit"
            /\ UNCHANGED mr_ret
       ELSE /\ now' = t
            /\ mr_pc' = "ret"
            /\ mr_ret' = "None"
            /\ UNCHANGED <<waits, retry_count>>

\* semantic.py:137-146: the response has status 429.
Response429 ==
    /\ mr_pc = "in_flight"
    /\ \E d \in Latencies :
          RetryOrGiveUp(now + d, RateLimitedBackoff(retry_count, now + d))
    /\ UNCHANGED <<op, year_ret, pc, last_request_time, clientVars, nReq, sentVars,
                   paper, nCalls, netCalls, pipeVars>>

\* semantic.py:148-158: session.get or raise_for_status raised a
\* RequestException (connection error, timeout, 4xx/5xx other than 429).
ResponseFailure ==
    /\ mr_pc = "in_flight"
    /\ \E d \in Latencies :
          RetryOrGiveUp(now + d, FailureBackoff(retry_count, now + d))
    /\ UNCHANGED <<op, year_ret, pc, last_request_time, clientVars, nReq, sentVars,
                   paper, nCalls, netCalls, pipeVars>>

\* semantic.py:148-149: a 2xx response is returned.
ResponseOK ==
    /\ mr_pc = "in_flight"
    /\ \E d \in Latencies : now' = now + d
    /\ \E data \in ApiData : mr_ret' = data
    /\ mr_pc' = "ret"
    /\ UNCHANGED <<op, year_ret, pc, last_request_time, clientVars, retry_count, waits,
                   nReq, sentVars, paper, nCalls, netCalls, faults, pipeVars>>

\* semantic.py:307-309: get_paper_details calls _make_request(.., retry_count=0).
EnterMakeRequest ==
    /\ mr_pc' = "rate_limit"
    /\ retry_count' = 0
    /\ waits' = <<>>
    /\ nReq' = 0
    /\ mr_ret' = "pending"

\* _make_request has returned to its caller: its locals are gone.
LeaveMakeRequest ==
    /\ mr_pc' = "idle"
    /\ retry_count' = 0
    /\ waits' = <<>>
    /\ nReq' = 0
    /\ mr_ret' = "pending"

\* get_paper_details called by the application.
DetailsCall ==
    /\ op = "sem_details"
    /\ pc = "start"
    /\ EnterMakeRequest
    /\ pc' = "details"
    /\ nCalls' = nCalls + 1
    /\ UNCHANGED <<op, year_ret, now, last_request_time, clientVars, sentVars, paper,
                   netCalls, faults, pipeVars>>

\* semantic.py:310-318
DetailsReturn ==
    /\ op = "sem_details"
    /\ pc = "details"
    /\ mr_pc = "ret"
    /\ paper' = ParsePaper(mr_ret)
    /\ LeaveMakeRequest
    /\ pc' = "done"
    /\ UNCHANGED <<op, year_ret, now, last_request_time, clientVars, sentVars, nCalls,
                   netCalls, faults, pipeVars>>

\* The application calls the same instance again, some time later.
NextCall ==
    /\ op = "sem_details"
    /\ pc = "done"
    /\ nCalls < MaxCalls
    /\ \E d \in 0..MaxIdle : now' = now + d
    /\ pc' = "start"
    /\ UNCHANGED <<op, year_ret, last_request_time, clientVars, mr_pc, retry_count, waits,
                   nReq, mr_ret, sentVars, paper, nCalls, netCalls, faults,
                   pipeVars>>

\* ------------------------------------------------------------------ strings

\* str.isspace of a token
IsSpace(c) == c \in {" ", "\t", "\n"}

RECURSIVE LStrip(_)
LStrip(s) == IF s # <<>> /\ IsSpace(Head(s)) THEN LStrip(Tail(s)) ELSE s

RECURSIVE RStrip(_)
RStrip(s) ==
    IF s # <<>> /\ IsSpace(s[Len(s)]) THEN RStrip(SubSeq(s, 1, Len(s) - 1)) ELSE s

\* str.strip()
Strip(s) == RStrip(LStrip(s))

\* str.lower() of a token
Lower(c) ==
    CASE c = "PDF" -> "pdf"
      [] c = "Application/" -> "application/"
      [] OTHER -> c

\* 'pdf' in s.lower(): by the tokenisation, "pdf" occurs only as a token.
ContainsPdf(s) == \E i \in 1..Len(s) : Lower(s[i]) = "pdf"

\* s.startswith("Error"): "Error" is always a token of its own.
StartsWithError(s) == s # <<>> /\ s[1] = "Error"

\* needle in hay
IsInfix(needle, hay) ==
    \E i \in 0..(Len(hay) - Len(needle)) :
        SubSeq(hay, i + 1, i + Len(needle)) = needle

Range(s) == { s[i] : i \in 1..Len(s) }

\* The identifiers a caller passes: empty and whitespace-only ones, a DOI, a
\* padded DOI, a prefixed DOI, a plain paper id.
BlankIds == { <<>>, <<" ">>, <<" ", "\t">> }
Dois == BlankIds \cup { <<"10.1", "/", "x">>, <<" ", "10.1", "/", "x", " ">> }
PaperIds == BlankIds \cup { <<"DOI", ":", "10.1", "/", "x">>, <<"649def">> }

\* Output directories: an ordinary one, and one whose name begins "Error".
SavePaths == { <<>>, <<"out">>, <<"Error", "_out">> }

\* What the PDF converter can return: nothing, blanks, a document, and a
\* document whose own text reads like the notice read_paper gives for a PDF
\* without text.
Texts ==
    { <<>>, <<" ", "\n">>, <<"# Intro", "\n", "body">>,
      <<"PDF downloaded to ", "out", "/", "semantic_", "649def", ".", "pdf",
        ", but no text could be extracted.">> }

ExcMsg == "<exception message>"

\* ------------------------------------------------------------ SciHubFetcher

\* sci_hub.py:57-61
base_url == <<"https://sci-hub.se">>

\* Elements of a Sci-Hub page, with the attributes _get_pdf_url reads.
Elem(tag, type, src, onclick, href) ==
    [tag |-> tag, type |-> type, src |-> src, onclick |-> onclick, href |-> href]

PageElements ==
    { Elem("embed", "application/pdf", <<"//", "cdn/", "1.", "pdf">>, <<>>, <<>>),
      Elem("embed", "application/pdf", <<>>, <<>>, <<>>),
      Elem("embed", "video/mp4", <<"/", "ad.mp4">>, <<>>, <<>>),
      Elem("iframe", "", <<"/", "view/", "2.", "pdf">>, <<>>, <<>>),
      Elem("iframe", "", <<>>, <<>>, <<>>),
      Elem("button", "", <<>>,
           <<"location.href='", "http://dl/", "3.", "pdf", "'">>, <<>>),
      Elem("button", "", <<>>, <<"location.href='", "/", "next", "'">>, <<>>),
      Elem("button", "", <<>>, <<"save", "PDF", "()">>, <<>>),
      Elem("a", "", <<>>, <<>>, <<"/", "a/", "4.", "PDF">>),
      Elem("a", "", <<>>, <<>>, <<"/", "about">>) }

RECURSIVE SeqsUpTo(_, _)
SeqsUpTo(S, n) ==
    IF n = 0 THEN { <<>> }
    ELSE LET shorter == SeqsUpTo(S, n - 1)
         IN  shorter \cup { Append(q, x) : q \in shorter, x \in S }

\* The response to GET {base_url}/{doi}; raised means session.get raised.
SearchResponses ==
    { [raised |-> TRUE, status |-> 0, not_found_text |-> FALSE, elems |-> <<>>] }
    \cup
    [ raised : {FALSE}, status : {200, 404}, not_found_text : BOOLEAN,
      elems : SeqsUpTo(PageElements, MaxElems) ]

NoPage == [raised |-> FALSE, status |-> 0, not_found_text |-> FALSE, elems |-> <<>>]

\* sci_hub.py:206-212
NormalizeUrl(url) ==
    IF url # <<>> /\ url[1] = "//" THEN <<"https:">> \o url
    ELSE IF url # <<>> /\ url[1] = "/" THEN base_url \o url
    ELSE url

\* soup.find, and the first hit of a loop over soup.find_all: the least
\* index of the set S of matching positions, 0 when nothing matches.
FirstOf(S) == IF S = {} THEN 0 ELSE CHOOSE i \in S : \A j \in S : i <= j

\* re.search(r"location\.href='([^']+)'", onclick): the captured group of the
\* leftmost match, <<>> when there is no match.
NavMatchAt(oc, i) ==
    /\ oc[i] = "location.href='"
    /\ \E j \in (i + 2)..Len(oc) :
          oc[j] = "'" /\ \A k \in (i + 1)..(j - 1) : oc[k] # "'"

NavUrl(oc) ==
    IF \E i \in 1..Len(oc) : NavMatchAt(oc, i)
    THEN LET i == CHOOSE i \in 1..Len(oc) :
                     NavMatchAt(oc, i) /\ \A h \in 1..(i - 1) : ~NavMatchAt(oc, h)
             j == CHOOSE j \in (i + 2)..Len(oc) :
                     oc[j] = "'" /\ \A k \in (i + 1)..(j - 1) : oc[k] # "'"
         IN  SubSeq(oc, i + 1, j - 1)
    ELSE <<>>

\* sci_hub.py:177
IsPdfEmbed(e) == e.tag = "embed" /\ e.type = "application/pdf"
\* sci_hub.py:182
IsIframe(e) == e.tag = "iframe"
\* sci_hub.py:187-191
IsPdfButton(e) == e.tag = "button" /\ ContainsPdf(e.onclick) /\ NavUrl(e.onclick) # <<>>
\* sci_hub.py:195-197
IsPdfAnchor(e) == e.tag = "a" /\ e.href # <<>> /\ ContainsPdf(e.href)

\* sci_hub.py:176-200: the four methods in order; None is <<>>.
FirstCandidate(elems) ==
    LET embed == FirstOf({ i \in DOMAIN elems : IsPdfEmbed(elems[i]) })
        iframe == FirstOf({ i \in DOMAIN elems : IsIframe(elems[i]) })
        button == FirstOf({ i \in DOMAIN elems : IsPdfButton(elems[i]) })
        link == FirstOf({ i \in DOMAIN elems : IsPdfAnchor(elems[i]) })
    IN  IF embed # 0 /\ elems[embed].src # <<>>
            THEN NormalizeUrl(elems[embed].src)
        ELSE IF iframe # 0 /\ elems[iframe].src # <<>>
            THEN NormalizeUrl(elems[iframe].src)
        ELSE IF button # 0 THEN NormalizeUrl(NavUrl(elems[button].onclick))
        ELSE IF link # 0 THEN NormalizeUrl(elems[link].href)
        ELSE <<>>

\* sci_hub.py:159-204: _get_pdf_url on the response r.
GetPdfUrl(r) ==
    IF r.raised THEN <<>>
    ELSE IF r.status # 200 THEN <<>>
    ELSE IF r.not_found_text THEN <<>>
    ELSE FirstCandidate(r.elems)

\* sci_hub.py:83
IsBlank(d) == d = <<>> \/ Strip(d) = <<>>

\* sci_hub.py:88
OutputDir(sp) == IF sp # <<>> THEN sp ELSE <<"/home/user", "/", "paper_downloads">>

\* The response to GET pdf_url; raised means session.get raised.
ContentTypes ==
    { <<"application/", "pdf">>, <<"Application/", "PDF">>, <<"text/html">>, <<>> }

\* A file or response body: its leading bytes and its length in bytes.
Blob(data, size) == [data |-> data, size |-> size]

Bodies ==
    { Blob(<<"%", "P", "D", "F", "-1.4 ...">>, 52000),
      Blob(<<"%", "P", "D">>, 3),
      Blob(<<"<", "h", "t", "m", "l", ">">>, 740),
      Blob(<<>>, 0) }

EmptyBlob == Blob(<<>>, 0)

DownloadResponses ==
    { [raised |-> TRUE, status |-> 0, ctype |-> <<>>, body |-> EmptyBlob] }
    \cup
    [ raised : {FALSE}, status : {200, 404}, ctype : ContentTypes, body : Bodies ]

NoResponse == [raised |-> FALSE, status |-> 0, ctype |-> <<>>, body |-> EmptyBlob]

StatusText(n) == IF n = 200 THEN "200" ELSE IF n = 404 THEN "404" ELSE "0"

\* content[:4]
Prefix4(b) == SubSeq(b.data, 1, Min(4, Len(b.data)))

PdfMagic == <<"%", "P", "D", "F">>

\* A download that skips the PDF validation.
IsPdfResponseUnchecked(r) == TRUE

\* sci_hub.py:104-105, negated: the response passes the PDF validation.
IsPdfResponse(r) == ContainsPdf(r.ctype) \/ Prefix4(r.body) = PdfMagic

\* sci_hub.py:217: re.sub(r'[^\w\-_.]', '_', doi)
CleanChar(c) == IF c \in {"/", ":", " ", "\t", "\n"} THEN "_" ELSE c

CleanDoi(d) == [i \in 1..Len(d) |-> CleanChar(d[i])]

\* sci_hub.py:219: hashlib.md5(content).hexdigest()[:6]
ContentHash(b) ==
    CASE b.size = 0 -> "d41d8c"
      [] Prefix4(b) = PdfMagic -> "3f2a9c"
      [] b.size = 3 -> "a07e11"
      [] OTHER -> "c4ca42"

\* sci_hub.py:214-220
GenerateFilename(d, b) ==
    <<"scihub_">> \o CleanDoi(d) \o <<"_", ContentHash(b), ".", "pdf">>

\* sci_hub.py:110 and :116: str(output_dir / filename)
FilePath(dir, name) == dir \o <<"/">> \o name

\* open(path, 'wb') and write: the file at path now holds content.
WriteFile(fs, path, content) ==
    [p \in DOMAIN fs \cup {path} |-> IF p = path THEN content ELSE fs[p]]

NoFiles == [p \in {} |-> EmptyBlob]

ErrEmptyDoi == <<"Error", ": DOI is empty">>
ErrNoPdf(d) == <<"Error", ": Could not find PDF for DOI ">> \o d \o <<" on Sci-Hub">>
ErrStatus(n) == <<"Error", ": Download failed with status ", StatusText(n)>>
ErrNotPdf(ct) == <<"Error", ": Response is not a PDF (Content-Type: ">> \o ct \o <<")">>
ErrDownload == <<"Error", " downloading PDF: ", ExcMsg>>
ErrExtract == <<"Error", " extracting text: ", ExcMsg>>

\* A no-text result that would be indistinguishable from a failure.
NoTextAsError(path) == <<"Error", ": no text could be extracted from ">> \o path

\* sci_hub.py:143-144 and semantic.py:458-459
NoTextMsg(path) == <<"PDF downloaded to ">> \o path \o <<", but no text could be extracted.">>

\* A header that leaves the identifier out.
SciHubHeaderWithoutId(d, path) ==
    <<"# Paper", "\n\n", "**Source**: Sci-Hub\n\n", "---\n\n">>

\* sci_hub.py:147-151
SciHubHeader(d, path) ==
    <<"# Paper: ">> \o d \o <<"\n\n", "**DOI**: https://doi.org/">> \o d
    \o <<"\n", "**PDF**: ">> \o path
    \o <<"\n", "**Source**: Sci-Hub\n\n", "---\n\n">>

\* What pymupdf4llm.to_markdown does: raise, or return a text.
Conversions == { [raised |-> TRUE, out |-> <<>>] } \cup [raised : {FALSE}, out : Texts]

NoConversion == [raised |-> FALSE, out |-> <<>>]

SciHubOps == {"sh_download", "sh_read"}

\* download_pdf returns v: to the application, or to read_paper.
ReturnFromDownload(v, standalone) ==
    /\ dl_ret' = v
    /\ result' = IF op \in standalone THEN v ELSE result
    /\ pc' = IF op \in standalone THEN "done" ELSE "downloaded"

\* sci_hub.py:83-84
SH_RejectBlank ==
    /\ op \in SciHubOps
    /\ pc = "start"
    /\ IsBlank(ident)
    /\ ReturnFromDownload(ErrEmptyDoi, {"sh_download"})
    /\ UNCHANGED <<op, year_ret, semVars, netCalls, inVars, raised, stages, files,
                   doi, page, pdf_url, resp, text>>

\* sci_hub.py:86-89: strip, then mkdir, which is outside the try block.
SH_Mkdir ==
    /\ op \in SciHubOps
    /\ pc = "start"
    /\ ~IsBlank(ident)
    /\ doi' = Strip(ident)
    /\ stages' = Append(stages, "mkdir")
    /\ \E ok \in BOOLEAN :
          IF ok THEN pc' = "resolve" /\ UNCHANGED raised
                ELSE pc' = "done" /\ raised' = TRUE
    /\ UNCHANGED <<op, year_ret, semVars, netCalls, inVars, result, files,
                   page, pdf_url, resp, dl_ret, text>>

\* sci_hub.py:93 and 159-204: _get_pdf_url
SH_Resolve ==
    /\ op \in SciHubOps
    /\ pc = "resolve"
    /\ \E r \in SearchResponses :
          /\ page' = r
          /\ pdf_url' = GetPdfUrl(r)
    /\ netCalls' = netCalls + 1
    /\ stages' = Append(stages, "resolve")
    /\ pc' = "resolved"
    /\ UNCHANGED <<op, year_ret, semVars, inVars, result, raised, files, doi, resp,
                   dl_ret, text>>

\* sci_hub.py:94-95
SH_NotFound ==
    /\ op \in SciHubOps
    /\ pc = "resolved"
    /\ pdf_url = <<>>
    /\ page' = NoPage
    /\ ReturnFromDownload(ErrNoPdf(doi), {"sh_download"})
    /\ UNCHANGED <<op, year_ret, semVars, netCalls, inVars, raised, stages, files,
                   doi, pdf_url, resp, text>>

\* A download that saves the response body before it checks the status and
\* the content.
SH_DownloadWritesFirst ==
    /\ op \in SciHubOps
    /\ pc = "resolved"
    /\ pdf_url # <<>>
    /\ page' = NoPage
    /\ netCalls' = netCalls + 1
    /\ stages' = Append(stages, "download")
    /\ \E r \in DownloadResponses :
          /\ resp' = r
          /\ IF r.raised
             THEN ReturnFromDownload(ErrDownload, {"sh_download"}) /\ UNCHANGED files
             ELSE LET path == FilePath(OutputDir(save_path),
                                       GenerateFilename(doi, r.body))
                  IN  /\ files' = WriteFile(files, path, r.body)
                      /\ IF r.status # 200
                         THEN ReturnFromDownload(ErrStatus(r.status), {"sh_download"})
                         ELSE IF ~IsPdfResponse(r)
                         THEN ReturnFromDownload(ErrNotPdf(r.ctype), {"sh_download"})
                         ELSE ReturnFromDownload(path, {"sh_download"})
    /\ UNCHANGED <<op, year_ret, semVars, inVars, raised, doi, pdf_url, text>>

\* sci_hub.py:97-120
SH_Download ==
    /\ op \in SciHubOps
    /\ pc = "resolved"
    /\ pdf_url # <<>>
    /\ page' = NoPage
    /\ netCalls' = netCalls + 1
    /\ stages' = Append(stages, "download")
    /\ \E r \in DownloadResponses :
          /\ resp' = r
          /\ IF r.raised
             THEN ReturnFromDownload(ErrDownload, {"sh_download"}) /\ UNCHANGED files
             ELSE IF r.status # 200
             THEN ReturnFromDownload(ErrStatus(r.status), {"sh_download"})
                  /\ UNCHANGED files
             ELSE IF ~IsPdfResponse(r)
             THEN ReturnFromDownload(ErrNotPdf(r.ctype), {"sh_download"})
                  /\ UNCHANGED files
             ELSE LET path == FilePath(OutputDir(save_path),
                                       GenerateFilename(doi, r.body))
                  IN  \E w \in {"written", "open_raises", "write_raises"} :
                        CASE w = "written" ->
                               /\ files' = WriteFile(files, path, r.body)
                               /\ ReturnFromDownload(path, {"sh_download"})
                          [] w = "open_raises" ->
                               /\ UNCHANGED files
                               /\ ReturnFromDownload(ErrDownload, {"sh_download"})
                          [] w = "write_raises" ->
                               /\ files' = WriteFile(files, path, EmptyBlob)
                               /\ ReturnFromDownload(ErrDownload, {"sh_download"})
    /\ UNCHANGED <<op, year_ret, semVars, inVars, raised, doi, pdf_url, text>>

\* sci_hub.py:133-135
SH_ReadFailed ==
    /\ op = "sh_read"
    /\ pc = "downloaded"
    /\ StartsWithError(dl_ret)
    /\ result' = dl_ret
    /\ pc' = "done"
    /\ UNCHANGED <<op, year_ret, semVars, netCalls, inVars, raised, stages, files, shVars>>

\* sci_hub.py:137-157
SH_Extract ==
    /\ op = "sh_read"
    /\ pc = "downloaded"
    /\ ~StartsWithError(dl_ret)
    /\ stages' = Append(stages, "extract")
    /\ \E c \in Conversions :
          /\ text' = c
          /\ result' = IF c.raised THEN ErrExtract
                       ELSE IF Strip(c.out) = <<>> THEN NoTextMsg(dl_ret)
                       ELSE SciHubHeader(ident, dl_ret) \o c.out
    /\ pc' = "done"
    /\ UNCHANGED <<op, year_ret, semVars, netCalls, inVars, raised, files,
                   doi, page, pdf_url, resp, dl_ret>>

\* --------------------------------------------- SemanticSearcher: download, read

SemanticOps == {"sem_download", "sem_read"}

\* semantic.py:392: paper_id.replace('/', '_').replace(':', '_')
SafeChar(c) == IF c \in {"/", ":"} THEN "_" ELSE c

SafeId(id) == [i \in 1..Len(id) |-> SafeChar(id[i])]

\* semantic.py:392-394
SemanticPath(dir, id) ==
    dir \o <<"/", "semantic_">> \o SafeId(id) \o <<".", "pdf">>

ErrNoPaper(id) == <<"Error", ": Could not find paper ">> \o id
ErrNoPdfUrl(id) == <<"Error", ": No PDF URL available for paper ">> \o id
ErrAllFailed(url) == <<"Error", " downloading PDF: All methods failed for ">> \o url

\* semantic.py:462-469: the header, empty when the paper is None.
SemanticHeader(p, path) ==
    IF p = <<>> THEN <<>>
    ELSE <<"# ", p[1].title, "\n\n", "**Authors**: ", p[1].authors, "\n",
           "**Published**: ", p[1].published_date, "\n",
           "**URL**: ", p[1].url, "\n", "**PDF**: ">> \o path
         \o <<"\n\n", "---\n\n">>

\* What the curl subprocess can do: not installed; killed by the 360 s
\* timeout; subprocess.run raising; a non-zero exit; exit 0. `wrote` tells
\* whether it left an output file, `blob` what the file holds.
CurlBlobs ==
    Bodies \cup { Blob(<<"<", "h", "t", "m", "l", ">">>, 1000),
                  Blob(<<"%", "P", "D", "F", "-1.4 ...">>, 1001) }

CurlOutcomes ==
    { [kind |-> "absent", wrote |-> FALSE, blob |-> EmptyBlob] }
    \cup [ kind : {"timeout", "exception", "failed"}, wrote : {FALSE},
           blob : {EmptyBlob} ]
    \cup [ kind : {"timeout", "failed"}, wrote : {TRUE},
           blob : { Blob(<<"%", "P", "D", "F", "-1.4 ...">>, 20000) } ]
    \cup [ kind : {"exit0"}, wrote : {TRUE}, blob : CurlBlobs ]

NoCurl == [kind |-> "none", wrote |-> FALSE, blob |-> EmptyBlob]

RemoveFile(fs, path) == [p \in DOMAIN fs \ {path} |-> fs[p]]

\* semantic.py:353
CurlSizeOk(size) == size > 1000

\* semantic.py:320-369: _download_with_curl; ok is its return value, files
\* the file system it leaves.
DownloadWithCurl(c, fs, path) ==
    IF c.kind = "absent" THEN [ok |-> FALSE, files |-> fs]
    ELSE LET after == IF c.wrote THEN WriteFile(fs, path, c.blob) ELSE fs
         IN  IF c.kind = "exit0" /\ path \in DOMAIN after
             THEN IF CurlSizeOk(after[path].size)
                  THEN [ok |-> TRUE, files |-> after]
                  ELSE [ok |-> FALSE, files |-> RemoveFile(after, path)]
             ELSE [ok |-> FALSE, files |-> after]

\* semantic.py:383: download_pdf starts with get_paper_details.
SEM_Start ==
    /\ op \in SemanticOps
    /\ pc = "start"
    /\ EnterMakeRequest
    /\ stages' = Append(stages, "resolve")
    /\ pc' = "dl_details"
    /\ UNCHANGED <<op, year_ret, now, last_request_time, clientVars, sentVars, paper,
                   nCalls, netCalls, faults, inVars, result, raised, files,
                   shVars, semDlVars>>

\* semantic.py:310-318 and 384-394: the paper is parsed, the two early
\* returns, then os.makedirs, which is outside any try block.
SEM_AfterDetails ==
    /\ op \in SemanticOps
    /\ pc = "dl_details"
    /\ mr_pc = "ret"
    /\ LeaveMakeRequest
    /\ LET p == ParsePaper(mr_ret)
       IN  /\ paper' = p
           /\ IF p = <<>>
              THEN /\ ReturnFromDownload(ErrNoPaper(ident), {"sem_download"})
                   /\ UNCHANGED <<raised, stages, pdf_url, pdf_path>>
              ELSE IF p[1].pdf_url = <<>>
              THEN /\ ReturnFromDownload(ErrNoPdfUrl(ident), {"sem_download"})
                   /\ UNCHANGED <<raised, stages, pdf_url, pdf_path>>
              ELSE /\ stages' = Append(stages, "mkdir")
                   /\ pdf_url' = p[1].pdf_url
                   /\ \E ok \in BOOLEAN :
                        IF ok /\ save_path # <<>>
                        THEN /\ pdf_path' = SemanticPath(save_path, ident)
                             /\ pc' = "curl"
                             /\ UNCHANGED <<raised, result, dl_ret>>
                        ELSE /\ raised' = TRUE
                             /\ pc' = "done"
                             /\ UNCHANGED <<pdf_path, result, dl_ret>>
    /\ UNCHANGED <<op, year_ret, now, last_request_time, clientVars, sentVars, nCalls,
                   netCalls, faults, inVars, files, doi, page, resp, text,
                   attempt, dl_waits, curl>>

\* semantic.py:396-400
SEM_Curl ==
    /\ op \in SemanticOps
    /\ pc = "curl"
    /\ stages' = Append(stages, "download")
    /\ \E c \in CurlOutcomes :
          LET r == DownloadWithCurl(c, files, pdf_path)
          IN  /\ curl' = c
              /\ files' = r.files
              /\ netCalls' = IF c.kind = "absent" THEN netCalls ELSE netCalls + 1
              /\ IF r.ok
                 THEN ReturnFromDownload(pdf_path, {"sem_download"})
                 ELSE pc' = "fallback" /\ UNCHANGED <<result, dl_ret>>
    /\ attempt' = 0
    /\ dl_waits' = <<>>
    /\ UNCHANGED <<op, year_ret, now, last_request_time, clientVars, mr_pc, retry_count,
                   waits, nReq, mr_ret, sentVars, paper, nCalls, faults, inVars,
                   raised, doi, page, pdf_url, resp, text, pdf_path>>

\* A fallback that also sleeps after its last attempt.
FallbackSleepsAlways(a, maxr) == a < maxr

\* semantic.py:424-425 and 429-430
FallbackSleeps(a, maxr) == a < maxr - 1

\* semantic.py:425 and :430: 2 ** attempt
FallbackWait(a) == (2 ^ a) * Second

\* semantic.py:405-430: one iteration of the requests fallback.
SEM_FallbackAttempt ==
    /\ op \in SemanticOps
    /\ pc = "fallback"
    /\ attempt < max_retries
    /\ netCalls' = netCalls + 1
    /\ \E o \in {"timeout", "request_error", "stream_error", "written", "os_error"} :
          CASE o \in {"timeout", "request_error", "stream_error"} ->
                 /\ files' = IF o = "stream_error"
                             THEN WriteFile(files, pdf_path, EmptyBlob) ELSE files
                 /\ IF FallbackSleeps(attempt, max_retries)
                    THEN /\ \E t \in Sleep(now, FallbackWait(attempt)) : now' = t
                         /\ dl_waits' = Append(dl_waits, FallbackWait(attempt))
                    ELSE UNCHANGED <<now, dl_waits>>
                 /\ attempt' = attempt + 1
                 /\ UNCHANGED <<pc, result, dl_ret, raised>>
            [] o = "written" ->
                 /\ \E b \in Bodies : files' = WriteFile(files, pdf_path, b)
                 /\ ReturnFromDownload(pdf_path, {"sem_download"})
                 /\ UNCHANGED <<now, dl_waits, attempt, raised>>
            [] o = "os_error" ->
                 /\ raised' = TRUE
                 /\ pc' = "done"
                 /\ UNCHANGED <<files, now, dl_waits, attempt, result, dl_ret>>
    /\ UNCHANGED <<op, year_ret, last_request_time, clientVars, mr_pc, retry_count,
                   waits, nReq, mr_ret, sentVars, paper, nCalls, faults, inVars,
                   stages, shVarsButRet, curl, pdf_path>>

\* semantic.py:432: the loop ran out of attempts.
SEM_FallbackExhausted ==
    /\ op \in SemanticOps
    /\ pc = "fallback"
    /\ attempt >= max_retries
    /\ ReturnFromDownload(ErrAllFailed(pdf_url), {"sem_download"})
    /\ UNCHANGED <<op, year_ret, now, last_request_time, clientVars, mr_pc, retry_count,
                   waits, nReq, mr_ret, sentVars, paper, nCalls, netCalls,
                   faults, inVars, raised, stages, files, shVarsButRet,
                   semDlVars>>

\* semantic.py:447-449
SEM_ReadFailed ==
    /\ op = "sem_read"
    /\ pc = "downloaded"
    /\ StartsWithError(dl_ret)
    /\ result' = dl_ret
    /\ pc' = "done"
    /\ UNCHANGED <<op, year_ret, semVars, netCalls, inVars, raised, stages, files, shVars>>

\* semantic.py:452: get_paper_details is called a second time.
SEM_ReadDetails ==
    /\ op = "sem_read"
    /\ pc = "downloaded"
    /\ ~StartsWithError(dl_ret)
    /\ EnterMakeRequest
    /\ stages' = Append(stages, "resolve")
    /\ pc' = "rd_details"
    /\ UNCHANGED <<op, year_ret, now, last_request_time, clientVars, sentVars, paper,
                   nCalls, netCalls, faults, inVars, result, raised, files,
                   shVars, semDlVars>>

\* semantic.py:452-475
SEM_Extract ==
    /\ op = "sem_read"
    /\ pc = "rd_details"
    /\ mr_pc = "ret"
    /\ LeaveMakeRequest
    /\ paper' = ParsePaper(mr_ret)
    /\ stages' = Append(stages, "extract")
    /\ \E c \in Conversions :
          /\ text' = c
          /\ result' = IF c.raised THEN ErrExtract
                       ELSE IF Strip(c.out) = <<>> THEN NoTextMsg(dl_ret)
                       ELSE SemanticHeader(ParsePaper(mr_ret), dl_ret) \o c.out
    /\ pc' = "done"
    /\ UNCHANGED <<op, year_ret, now, last_request_time, clientVars, sentVars, nCalls,
                   netCalls, faults, inVars, raised, files, doi, page, pdf_url,
                   resp, dl_ret, semDlVars>>

\* ------------------------------------------------------- check_paper_year

\* A published_date is None, <<>>, or a datetime, <<[year |-> y]>>.
Years == (DefaultCutoffYear - YearSpan)..(DefaultCutoffYear + YearSpan)

PublishedDates == { <<>> } \cup { << [year |-> y] >> : y \in Years }

CheckPaperYearInclusive(date, cutoff) ==
    IF date = <<>> THEN FALSE ELSE date[1].year <= cutoff

\* sci_hub.py:223-235
CheckPaperYear(date, cutoff) ==
    IF date = <<>> THEN FALSE ELSE date[1].year < cutoff

\* The application calls check_paper_year.
YearCheck ==
    /\ op = "year"
    /\ pc = "start"
    /\ year_ret' = CheckPaperYear(published_date, cutoff_year)
    /\ pc' = "done"
    /\ UNCHANGED <<op, semVars, netCalls, inVars, result, raised, stages,
                   files, shVars>>

Ops == {"sem_details", "year"} \cup SciHubOps \cup SemanticOps

\* SemanticSearcher.__init__, semantic.py:80-104; a behaviour that runs a
\* SciHubFetcher operation constructs the searcher with its defaults.
InitClient ==
    /\ IF op \in SciHubOps \cup {"year"}
       THEN /\ now = Epoch
            /\ api_key = ""
            /\ max_retries = DefaultMaxRetries
       ELSE IF op \in SemanticOps
       THEN /\ now = Epoch
            /\ api_key \in ApiKeys
            /\ max_retries \in {0, DefaultMaxRetries}
       ELSE /\ now \in Epoch..(Epoch + Second - 1)
            /\ api_key \in ApiKeys
            /\ max_retries \in 0..MaxRetriesBound
    /\ last_request_time = 0
    /\ min_request_interval = MinRequestInterval(api_key)
    /\ mr_pc = "idle"
    /\ retry_count = 0
    /\ waits = <<>>
    /\ nReq = 0
    /\ mr_ret = "pending"
    /\ prevSent = 0
    /\ lastSent = 0
    /\ nSent = 0
    /\ rl_slept = FALSE
    /\ paper = <<>>
    /\ nCalls = 0
    /\ faults = IF op = "sem_details" THEN 1 ELSE PipelineFaults

Init ==
    /\ op \in Ops
    /\ pc = "start"
    /\ InitClient
    /\ ident \in (CASE op \in SciHubOps -> Dois
                    [] op \in SemanticOps -> PaperIds
                    [] OTHER -> { <<"649def">> })
    /\ save_path \in (IF op \in SciHubOps \cup SemanticOps
                       THEN SavePaths ELSE { <<"out">> })
    /\ published_date \in (IF op = "year" THEN PublishedDates ELSE { <<>> })
    /\ cutoff_year \in (IF op = "year" THEN Years ELSE { DefaultCutoffYear })
    /\ year_ret = FALSE
    /\ netCalls = 0
    /\ result = <<>>
    /\ raised = FALSE
    /\ stages = <<>>
    /\ files = NoFiles
    /\ doi = <<>>
    /\ page = NoPage
    /\ pdf_url = <<>>
    /\ resp = NoResponse
    /\ dl_ret = <<>>
    /\ text = NoConversion
    /\ attempt = 0
    /\ dl_waits = <<>>
    /\ curl = NoCurl
    /\ pdf_path = <<>>

Next ==
    \/ MakeRequestSend
    \/ Response429
    \/ ResponseFailure
    \/ ResponseOK
    \/ DetailsCall
    \/ DetailsReturn
    \/ NextCall
    \/ SH_RejectBlank
    \/ SH_Mkdir
    \/ SH_Resolve
    \/ SH_NotFound
    \/ SH_Download
    \/ SH_ReadFailed
    \/ SH_Extract
    \/ SEM_Start
    \/ SEM_AfterDetails
    \/ SEM_Curl
    \/ SEM_FallbackAttempt
    \/ SEM_FallbackExhausted
    \/ SEM_ReadFailed
    \/ SEM_ReadDetails
    \/ SEM_Extract
    \/ YearCheck

Spec == Init /\ [][Next]_vars

\* ------------------------------------------------------------------ claims

StrictlyIncreasing(s) == \A i \in 1..(Len(s) - 1) : s[i] < s[i + 1]

\* C1: one top-level _make_request call that meets 429 responses and network
\* failures retries at most max_retries times (at most max_retries + 1
\* requests), every backoff wait is strictly longer than the one before, and
\* the call that gave up has returned None, after all its retries were used.
C1_BoundedBackoffRetry ==
    /\ retry_count <= max_retries
    /\ Len(waits) = retry_count
    /\ nReq <= max_retries + 1
    /\ StrictlyIncreasing(waits)
    /\ (mr_pc = "ret" /\ mr_ret \notin ApiData) =>
          (mr_ret = "None" /\ nReq = max_retries + 1 /\ retry_count = max_retries)

C1_Witness ==
    /\ mr_pc = "ret"
    /\ mr_ret = "None"
    /\ max_retries = MaxRetriesBound
    /\ Len(waits) = max_retries
    /\ nReq = max_retries + 1

DownloadOps == {"sh_download", "sem_download"}
ReadOps == {"sh_read", "sem_read"}

\* The converter ran and returned a text that is not blank / that is blank.
ExtractedText == "extract" \in Range(stages) /\ ~text.raised /\ Strip(text.out) # <<>>
ExtractedNothing == "extract" \in Range(stages) /\ ~text.raised /\ Strip(text.out) = <<>>

\* The part of the result that precedes the extracted text.
ResultHeader == SubSeq(result, 1, Len(result) - Len(text.out))
ResultBody == SubSeq(result, Len(result) - Len(text.out) + 1, Len(result))

\* C2: download_pdf of either class, given an empty or whitespace-only
\* identifier, issues no network call, raises nothing, and returns an error
\* result.
C2_BlankIdentifierRejected ==
    (op \in DownloadOps /\ IsBlank(ident)) =>
        /\ netCalls = 0
        /\ ~raised
        /\ pc = "done" => StartsWithError(result)

\* C3: download_pdf and read_paper of both classes never let an exception
\* out: whatever stage fails, the operation returns a string, and a run that
\* did not end in success returns one that starts with "Error".
C3_FailuresAreErrorStrings ==
    (op \in DownloadOps \cup ReadOps) =>
        /\ ~raised
        /\ pc = "done" =>
             \/ StartsWithError(result)
             \/ op \in DownloadOps /\ result \in DOMAIN files
             \/ op \in ReadOps /\ (ExtractedText \/ ExtractedNothing)

\* resolve, download, extract in the order read_paper is to run them
StageRank(s) ==
    CASE s = "resolve" -> 1 [] s = "download" -> 2 [] s = "extract" -> 3 [] OTHER -> 0

IsCoreStage(s) == StageRank(s) > 0

CoreStageRanks ==
    LET core == SelectSeq(stages, IsCoreStage)
    IN  [i \in 1..Len(core) |-> StageRank(core[i])]

\* C4: read_paper runs resolve, download, extract in this order, each at
\* most once: no stage is started after a later one has begun, and a run
\* that ended before extraction returns the failure of the stage it stopped at.
C4_StagesInOrder ==
    (op \in ReadOps /\ ~IsBlank(ident)) =>
        /\ StrictlyIncreasing(CoreStageRanks)
        /\ (pc = "done" /\ ~raised /\ "extract" \notin Range(stages)) =>
              (StartsWithError(result) /\ result = dl_ret)

\* SciHubFetcher.download_pdf has returned a result that is not an error.
SciHubDownloaded ==
    op = "sh_download" /\ pc = "done" /\ ~raised /\ ~StartsWithError(result)

\* C5 as stated: a result of SciHubFetcher.download_pdf that does not start
\* with "Error" is the path of the file written, and that file starts %PDF.
C5_ResultIsPdfFile ==
    SciHubDownloaded =>
        (result \in DOMAIN files /\ Prefix4(files[result]) = PdfMagic)

\* C5 as amended: a result of SciHubFetcher.download_pdf that does not start
\* with "Error" is the path of the file written; the file holds the body of
\* a status-200 response whose Content-Type contains "pdf" in any case or whose
\* first four bytes are %PDF.
C5_ResultIsValidatedFile ==
    SciHubDownloaded =>
        /\ result \in DOMAIN files
        /\ files[result] = resp.body
        /\ resp.status = 200
        /\ ContainsPdf(resp.ctype) \/ Prefix4(files[result]) = PdfMagic

C5_Witness ==
    /\ SciHubDownloaded
    /\ result \in DOMAIN files
    /\ ~ContainsPdf(resp.ctype)
    /\ Prefix4(files[result]) = PdfMagic

\* C6 as stated: when read_paper of either class extracted a non-blank text,
\* its result is a non-empty header followed by the text, and the header
\* contains the identifier the caller passed.
C6_HeaderNamesIdentifier ==
    (op \in ReadOps /\ pc = "done" /\ ExtractedText /\ ~IsBlank(ident)) =>
        /\ ResultBody = text.out
        /\ ResultHeader # <<>>
        /\ IsInfix(ident, ResultHeader)

\* C6 as amended: when read_paper extracted a non-blank text, its result ends
\* with the text. For SciHubFetcher what precedes it is a non-empty header
\* that contains the identifier as passed. For SemanticSearcher a header
\* precedes it only when the second metadata fetch returned a paper, and that
\* header holds the paper's title and the path of the PDF, in which the
\* identifier appears with every "/" and ":" replaced by "_".
C6_HeaderThenText ==
    (op \in ReadOps /\ pc = "done" /\ ExtractedText) =>
        /\ ResultBody = text.out
        /\ op = "sh_read" => (ResultHeader # <<>> /\ IsInfix(ident, ResultHeader))
        /\ op = "sem_read" =>
              /\ paper = <<>> <=> ResultHeader = <<>>
              /\ paper # <<>> =>
                    /\ IsInfix(<<paper[1].title>>, ResultHeader)
                    /\ IsInfix(dl_ret, ResultHeader)
                    /\ IsInfix(SafeId(ident), ResultHeader)

C6_Witness ==
    /\ op = "sem_read"
    /\ pc = "done"
    /\ ExtractedText
    /\ paper # <<>>
    /\ ~IsInfix(ident, ResultHeader)

\* The results read_paper returns after a successful extraction: those that
\* begin with a metadata header, and those of SemanticSearcher.read_paper
\* whose header is absent, which are the converter's text alone.
SuccessTexts == { t \in Texts : Strip(t) # <<>> }

HeadedSuccessResults ==
    { SciHubHeader(id, dl_ret) \o t : id \in Dois, t \in SuccessTexts }
    \cup
    { SemanticHeader(<<PaperWith(url)>>, dl_ret) \o t :
        url \in { <<>>, <<"u">> }, t \in SuccessTexts }

HeaderlessSuccessResults == { SemanticHeader(<<>>, dl_ret) \o t : t \in SuccessTexts }

\* The result of a read whose converter returned a blank text names the
\* downloaded file and is no error result.
NoTextResultNamesFile ==
    /\ IsInfix(dl_ret, result)
    /\ dl_ret \in DOMAIN files
    /\ ~StartsWithError(result)

UsableEmbed(e) == IsPdfEmbed(e) /\ e.src # <<>>
UsableIframe(e) == IsIframe(e) /\ e.src # <<>>

PriorityCandidate(elems) ==
    LET embed == FirstOf({ i \in DOMAIN elems : UsableEmbed(elems[i]) })
        iframe == FirstOf({ i \in DOMAIN elems : UsableIframe(elems[i]) })
        button == FirstOf({ i \in DOMAIN elems : IsPdfButton(elems[i]) })
        link == FirstOf({ i \in DOMAIN elems : IsPdfAnchor(elems[i]) })
    IN  IF embed # 0 THEN NormalizeUrl(elems[embed].src)
        ELSE IF iframe # 0 THEN NormalizeUrl(elems[iframe].src)
        ELSE IF button # 0 THEN NormalizeUrl(NavUrl(elems[button].onclick))
        ELSE IF link # 0 THEN NormalizeUrl(elems[link].href)
        ELSE <<>>

\* C8: _get_pdf_url returns the normalized URL of the highest-priority
\* candidate the page holds with a usable source (embedded PDF, iframe,
\* button script, anchor), and None when the request raised, the status is
\* not 200, the page says "article not found", or there is no candidate.
C8_HighestPriorityCandidate ==
    (op \in SciHubOps /\ pc = "resolved") =>
        pdf_url = IF page.raised \/ page.status # 200 \/ page.not_found_text
                  THEN <<>>
                  ELSE PriorityCandidate(page.elems)

\* C9: check_paper_year returns true exactly when the date is present and
\* its year is strictly less than the cutoff year.
C9_StrictlyBeforeCutoff ==
    (op = "year" /\ pc = "done") =>
        (year_ret <=> (published_date # <<>> /\ published_date[1].year < cutoff_year))

C9_Witness ==
    /\ op = "year"
    /\ pc = "done"
    /\ published_date # <<>>
    /\ published_date[1].year = cutoff_year
    /\ ~year_ret

\* C10: the recorded last-request timestamp never decreases, and two
\* consecutive API requests of one instance are at least
\* min_request_interval apart.
C10_PacedRequests ==
    /\ [][last_request_time' >= last_request_time]_vars
    /\ [](nSent = 2 => lastSent - prevSent >= min_request_interval)

C10_Witness ==
    /\ nSent = 2
    /\ rl_slept
    /\ mr_pc = "in_flight"
    /\ lastSent - prevSent = min_request_interval

\* C11 as stated: the configured minimum interval of an instance that has an
\* API key is shorter than the one of an instance without a key, and the one
\* of an instance without a key is longer than the one of an instance with a
\* key.
C11_KeyShortensInterval ==
    /\ api_key # "" => min_request_interval < MinRequestInterval("")
    /\ api_key = "" => min_request_interval > MinRequestInterval("key")

\* C11 as amended: the configured minimum interval is one second when an API
\* key is present and half a second when none is: longer with a key, shorter
\* without, and it stays as configured.
C11_KeyLengthensInterval ==
    /\ api_key # "" => min_request_interval = Second
    /\ api_key = "" => min_request_interval = HalfSecond
    /\ HalfSecond < Second

C11_Witness ==
    /\ api_key # ""
    /\ min_request_interval = Second
    /\ nSent = 2
    /\ rl_slept
    /\ lastSent - prevSent = Second

\* The command-line downloader attempt has been made / has succeeded.
CurlTried == curl # NoCurl
CurlSucceeded == curl.kind = "exit0" /\ curl.wrote /\ CurlSizeOk(curl.blob.size)

\* The waits 2^0, 2^1, ... seconds that follow the first n failed attempts.
ExponentialWaits(n) == [i \in 1..n |-> (2 ^ (i - 1)) * Second]

\* C12: SemanticSearcher.download_pdf enters the streamed-HTTP fallback only
\* after the curl attempt was made and failed; the fallback makes at most
\* max_retries attempts; the k-th failed attempt is followed by a wait of
\* 2^(k-1) seconds unless it was the last of the max_retries attempts; a
\* fallback that returned gave the file path, written, at the first attempt
\* that succeeded, or, after max_retries failed attempts, an error string
\* that contains the PDF URL.
C12_FallbackAfterCurl ==
    op \in SemanticOps =>
        /\ (pc = "fallback" \/ attempt > 0 \/ dl_waits # <<>>) =>
              (CurlTried /\ ~CurlSucceeded)
        /\ attempt <= max_retries
        /\ dl_waits = ExponentialWaits(Min(attempt, max_retries - 1))
        /\ (CurlTried /\ ~CurlSucceeded /\ pc # "fallback" /\ ~raised) =>
              \/ /\ dl_ret = pdf_path
                 /\ attempt < max_retries
                 /\ pdf_path \in DOMAIN files
              \/ /\ dl_ret = ErrAllFailed(pdf_url)
                 /\ attempt = max_retries
                 /\ StartsWithError(dl_ret)
                 /\ pdf_url # <<>>
                 /\ IsInfix(pdf_url, dl_ret)

C12_Witness ==
    /\ op = "sem_download"
    /\ pc = "done"
    /\ CurlTried
    /\ ~CurlSucceeded
    /\ max_retries = DefaultMaxRetries
    /\ attempt = max_retries
    /\ Len(dl_waits) = max_retries - 1
    /\ result = ErrAllFailed(pdf_url)

\* One kilobyte, in bytes, as semantic.py:353 counts it.
OneKB == 1000

\* The state right after the curl attempt failed: the fallback is entered and
\* has not made an attempt yet.
CurlJustFailed == op \in SemanticOps /\ pc = "fallback" /\ attempt = 0

\* C13: when _download_with_curl has failed although curl exited with status
\* 0 and left a file, that file was smaller than 1KB and has been deleted (so
\* a file of at least 1KB makes the attempt a success and is kept); when curl
\* is not installed the attempt fails and nothing was run or written.
C13_CurlSizeThreshold ==
    CurlJustFailed =>
        /\ (curl.kind = "exit0" /\ curl.wrote) =>
              (curl.blob.size < OneKB /\ pdf_path \notin DOMAIN files)
        /\ curl.kind = "absent" => (~curl.wrote /\ files = NoFiles)

\* The error results SciHubFetcher.download_pdf gives before it opens the
\* output file: blank identifier, no PDF URL, status other than 200, failed
\* PDF validation.
SciHubEarlyErrors ==
    { ErrEmptyDoi, ErrNoPdf(doi) }
    \cup { ErrStatus(n) : n \in {0, 200, 404} }
    \cup { ErrNotPdf(ct) : ct \in ContentTypes }

\* C14: when SciHubFetcher.download_pdf has returned one of these error
\* results, it has written no file, and whenever a file exists the response
\* had status 200 and passed the PDF validation.
C14_NoFileBeforeChecksPass ==
    /\ (op \in SciHubOps /\ dl_ret \in SciHubEarlyErrors) => files = NoFiles
    /\ (op \in SciHubOps /\ files # NoFiles) =>
          (pdf_url # <<>> /\ resp.status = 200 /\ IsPdfResponse(resp))

C14_Witness ==
    /\ op = "sh_download"
    /\ pc = "done"
    /\ resp.status = 200
    /\ resp.body.size > 0
    /\ result = ErrNotPdf(resp.ctype)
    /\ files = NoFiles

====
